---- MODULE Spec2Model ----
(***************************************************************************)
(* Model of translation.py: header / sheet-name translation with an        *)
(* in-memory cache, duplicate suffixing, placeholder-column removal, the   *)
(* per-sheet and per-workbook pipelines and the Excel export.              *)
(*                                                                         *)
(* A Python str is a sequence of one-character strings, so that            *)
(* concatenation, str.strip, str.startswith and slicing are computed.      *)
(* A Python dict is a sequence of <<key, value>> pairs in insertion order. *)
(***************************************************************************)
EXTENDS Integers, Sequences, FiniteSets, TLC

VARIABLES
    names,          \* argument handed to the two deduplicators
    dedup_cols,     \* value returned by deduplicate_columns(names)
    dedup_sheets,   \* value returned by deduplicate_sheet_names(names)
    dpc,            \* which of the two calls have returned
    translation_cache,  \* module-level dict: text -> translated text
    backend_calls,  \* text -> number of translator.translate(text) invocations
    backend_ok,     \* texts for which translator.translate has returned a result
    warned,         \* texts for which st.warning("Could not translate ...") was shown
    tt_calls,       \* text -> number of translate_text(text) invocations
    tt_text,        \* argument of the latest translate_text call
    tt_ret,         \* value returned by the latest translate_text call
    pc,             \* position of the running script
    xls,            \* the uploaded file: sequence of [name, columns] sheets
    translation_map,    \* the override map handed to the pipeline
    total_columns,  \* column count computed up front (lines 147, 187)
    overall,        \* overall_tracker.progress_value
    translated_sheet_names, \* dict: original sheet name -> translated name
    sheet_idx,      \* loop index over xls.sheet_names (1-based)
    df_columns,     \* df.columns after remove_empty_columns
    translated_columns, \* the list built by the column loop
    tracker,        \* ColumnProgressTracker.progress_value
    df_out,         \* the DataFrame returned by the latest translate_columns
    translated_sheets,  \* dict: new sheet name -> processed DataFrame
    emitted         \* sheet names handed to the Excel writer by to_excel

dedup_vars == <<names, dedup_cols, dedup_sheets, dpc>>
translator_vars == <<translation_cache, backend_calls, backend_ok, warned,
                     tt_calls, tt_text, tt_ret>>
pipeline_vars == <<pc, xls, translation_map, total_columns, overall,
                   translated_sheet_names, sheet_idx, df_columns,
                   translated_columns, tracker, df_out, translated_sheets,
                   emitted>>
vars == <<dedup_vars, translator_vars, pipeline_vars>>

----------------------------------------------------------------------------
(* Bounds *)

MaxLen == 4         \* longest name list handed to a deduplicator
MaxCalls == 2       \* translate_text invocations per text when called on its own
MaxCols == 3        \* most columns of an uploaded CSV
MaxSheets == 3      \* most sheets of an uploaded workbook
MaxSheetCols == 1   \* most columns of one workbook sheet

----------------------------------------------------------------------------
(* Strings *)

sX  == <<"X">>
sY  == <<"Y">>
sX1 == <<"X", ".", "1">>
sX2 == <<"X", ".", "2">>

Range(s) == {s[i] : i \in DOMAIN s}

Distinct(s) == \A i, j \in DOMAIN s : i /= j => s[i] /= s[j]

\* str(d) for one decimal digit
Digit(d) ==
    CASE d = 0 -> "0" [] d = 1 -> "1" [] d = 2 -> "2" [] d = 3 -> "3"
      [] d = 4 -> "4" [] d = 5 -> "5" [] d = 6 -> "6" [] d = 7 -> "7"
      [] d = 8 -> "8" [] d = 9 -> "9"

\* str(n) of a non-negative int, as the f-string formats it
RECURSIVE IntToStr(_)
IntToStr(n) ==
    IF n < 10 THEN <<Digit(n)>>
    ELSE IntToStr(n \div 10) \o <<Digit(n % 10)>>

----------------------------------------------------------------------------
(* Python dict: insertion-ordered sequence of <<key, value>> pairs *)

DictKeys(d) == [i \in DOMAIN d |-> d[i][1]]
DictValues(d) == [i \in DOMAIN d |-> d[i][2]]
DictHas(d, k) == \E i \in DOMAIN d : d[i][1] = k
DictGet(d, k) == d[CHOOSE i \in DOMAIN d : d[i][1] = k][2]
\* d[k] = v : an existing key keeps its position, a new key is appended
DictSet(d, k, v) ==
    IF DictHas(d, k)
    THEN [i \in DOMAIN d |-> IF d[i][1] = k THEN <<k, v>> ELSE d[i]]
    ELSE Append(d, <<k, v>>)

----------------------------------------------------------------------------
(* deduplicate_columns *)

\* mutation of ColSuffix: the counter is not decremented
ColSuffixOffByOne(col, n) == col \o <<".">> \o IntToStr(n)

\* f"{col}.{seen[col] - 1}", n being seen[col] after the increment
ColSuffix(col, n) == col \o <<".">> \o IntToStr(n - 1)

RECURSIVE DedupColumnsLoop(_, _, _, _)
DedupColumnsLoop(columns, i, seen, result) ==
    IF i > Len(columns) THEN result
    ELSE LET col == columns[i] IN
         IF ~DictHas(seen, col)
         THEN DedupColumnsLoop(columns, i + 1, DictSet(seen, col, 1),
                               Append(result, col))
         ELSE LET seen2 == DictSet(seen, col, DictGet(seen, col) + 1) IN
              DedupColumnsLoop(columns, i + 1, seen2,
                               Append(result, ColSuffix(col, DictGet(seen2, col))))

deduplicate_columns(columns) == DedupColumnsLoop(columns, 1, <<>>, <<>>)

(* deduplicate_sheet_names *)

\* f"{sheet_name}.{seen[sheet_name] - 1}"
SheetSuffix(sheet_name, n) == sheet_name \o <<".">> \o IntToStr(n - 1)

RECURSIVE DedupSheetNamesLoop(_, _, _, _)
DedupSheetNamesLoop(sheet_names, i, seen, result) ==
    IF i > Len(sheet_names) THEN result
    ELSE LET sheet_name == sheet_names[i] IN
         IF ~DictHas(seen, sheet_name)
         THEN DedupSheetNamesLoop(sheet_names, i + 1, DictSet(seen, sheet_name, 1),
                                  Append(result, sheet_name))
         ELSE LET seen2 == DictSet(seen, sheet_name, DictGet(seen, sheet_name) + 1) IN
              DedupSheetNamesLoop(sheet_names, i + 1, seen2,
                                  Append(result, SheetSuffix(sheet_name, DictGet(seen2, sheet_name))))

deduplicate_sheet_names(sheet_names) == DedupSheetNamesLoop(sheet_names, 1, <<>>, <<>>)

----------------------------------------------------------------------------
(* translate_text *)

\* a missing value (None / NaN), the case pd.isna(text) answers True for
Missing == <<"NaN">>

\* the characters str.strip() removes
Whitespace == {" ", "\t", "\n", "\r"}

RECURSIVE LStrip(_)
LStrip(s) ==
    IF s /= <<>> /\ Head(s) \in Whitespace THEN LStrip(Tail(s)) ELSE s

RECURSIVE RStrip(_)
RStrip(s) ==
    IF s /= <<>> /\ s[Len(s)] \in Whitespace
    THEN RStrip(SubSeq(s, 1, Len(s) - 1)) ELSE s

\* text.strip()
Strip(s) == RStrip(LStrip(s))

\* mutation of IsSkipped: only the empty string is skipped
IsSkippedEmptyOnly(text) == text = Missing \/ text = <<>>

\* line 15: pd.isna(text) or text.strip() == ""
IsSkipped(text) == text = Missing \/ Strip(text) = <<>>

\* mutation of CacheHit: the cache is never consulted
CacheNeverHit(text, cache) == FALSE

\* line 17: text in translation_cache
CacheHit(text, cache) == text \in DOMAIN cache

\* translation_cache[text] = result
CachePut(cache, text, result) ==
    [t \in DOMAIN cache \cup {text} |-> IF t = text THEN result ELSE cache[t]]

\* mutation of OnFailure: a failed translation yields the empty string
OnFailureEmpty(text) == <<>>

\* line 31: the except branch returns the original text
OnFailure(text) == text

\* One call translate_text(text, tracker) against the cache `cache`, the
\* backend answering `o` if it is invoked.  ret: the value returned;
\* cache: translation_cache afterwards; called: translator.translate was
\* invoked; ok: it returned; ticks: increments of tracker.progress_value.
translate_text(text, o, cache) ==
    IF IsSkipped(text)
    THEN [ret |-> text, cache |-> cache, called |-> FALSE, ok |-> FALSE, ticks |-> 0]
    ELSE IF CacheHit(text, cache)
    THEN [ret |-> cache[text], cache |-> cache, called |-> FALSE, ok |-> FALSE, ticks |-> 1]
    ELSE IF ~o.raises
    THEN [ret |-> o.result, cache |-> CachePut(cache, text, o.result),
          called |-> TRUE, ok |-> TRUE, ticks |-> 1]
    ELSE [ret |-> OnFailure(text), cache |-> cache, called |-> TRUE, ok |-> FALSE, ticks |-> 1]

Count(c, t) == IF t \in DOMAIN c THEN c[t] ELSE 0

\* the effect of the call on the module state and on the call's observers
ApplyTranslate(text, r) ==
    /\ translation_cache' = r.cache
    /\ backend_calls' = IF r.called
                        THEN CachePut(backend_calls, text, Count(backend_calls, text) + 1)
                        ELSE backend_calls
    /\ backend_ok' = IF r.called /\ r.ok THEN backend_ok \cup {text} ELSE backend_ok
    /\ warned' = IF r.called /\ ~r.ok THEN warned \cup {text} ELSE warned
    /\ tt_calls' = CachePut(tt_calls, text, Count(tt_calls, text) + 1)
    /\ tt_text' = text
    /\ tt_ret' = r.ret

None == <<"None">>

EmptyMap == [t \in {} |-> <<>>]

\* the module state right after import (lines 9-12)
TranslatorInit ==
    /\ translation_cache = EmptyMap
    /\ backend_calls = EmptyMap
    /\ backend_ok = {}
    /\ warned = {}
    /\ tt_calls = EmptyMap
    /\ tt_text = None
    /\ tt_ret = None

----------------------------------------------------------------------------
(* remove_empty_columns, the tabular inputs and the export helpers *)

sBlank    == <<" ">>
sUnnamed  == <<"U", "n", "n", "a", "m", "e", "d">>
sUnnamed0 == sUnnamed \o <<":", " ", "0">>
sCSV      == <<"C", "S", "V">>
Long31    == [i \in 1..31 |-> "L"]

\* s.startswith(prefix)
StartsWith(s, prefix) ==
    /\ Len(s) >= Len(prefix)
    /\ \A i \in 1..Len(prefix) : s[i] = prefix[i]

NotUnnamed(c) == ~StartsWith(c, sUnnamed)
NotBlank(c) == Strip(c) /= <<>>

\* mutation of remove_empty_columns: the whitespace filter is missing
remove_unnamed_only(columns) == SelectSeq(columns, NotUnnamed)

\* lines 59-60: drop 'Unnamed...' labels, then labels that strip to ""
remove_empty_columns(columns) ==
    SelectSeq(SelectSeq(columns, NotUnnamed), NotBlank)

\* the longest sheet name to_excel lets through (line 205)
SheetNameLimit == 31

\* sheet_name[:n]
Take(s, n) == SubSeq(s, 1, IF Len(s) < n THEN Len(s) ELSE n)

\* dict(zip(keys, values))
RECURSIVE ZipDict(_, _, _, _)
ZipDict(keys, values, i, d) ==
    IF i > Len(keys) \/ i > Len(values) THEN d
    ELSE ZipDict(keys, values, i + 1, DictSet(d, keys[i], values[i]))

SheetNamesOf(book) == [i \in DOMAIN book |-> book[i].name]

\* sum(len(read_excel(sheet).columns) for sheet in sheet_names)
RECURSIVE SumColumns(_)
SumColumns(book) ==
    IF book = <<>> THEN 0
    ELSE Len(Head(book).columns) + SumColumns(Tail(book))

\* mutation of Advance: the tracker is set, not advanced
AdvanceSet(progress_value, n) == n

\* tracker.progress(tracker.progress_value + n)
Advance(progress_value, n) == progress_value + n

\* mutation of UseOverride: the override map is never consulted
UseOverrideNever(col, map) == FALSE

\* line 94: col in translation_map
UseOverride(col, map) == col \in DOMAIN map

----------------------------------------------------------------------------
(* Inputs *)

SeqsUpTo(S, n) == UNION {[1..k -> S] : k \in 0..n}

\* column labels as pandas reads them: pairwise distinct
LabelSeqs(S, lo, hi) == {s \in SeqsUpTo(S, hi) : Len(s) >= lo /\ Distinct(s)}

\* what the backend can answer: a result or an exception
BackendResults == {sX, sUnnamed, Long31}
Outcomes == {[raises |-> FALSE, result |-> r] : r \in BackendResults}
              \cup {[raises |-> TRUE, result |-> <<>>]}

TextArgs == {sX, sY, <<>>, <<" ", "\t">>, Missing}

HeaderNames == {sX, sY, sBlank, sUnnamed0}
CsvFiles ==
    {<<[name |-> sCSV, columns |-> hs]>> : hs \in LabelSeqs(HeaderNames, 1, MaxCols)}

\* the sheets of a workbook are named by distinct names, taken here in the
\* order of SheetNameOrder
SheetNameOrder == <<sX, sY, sX1, sBlank>>
SheetNames == Range(SheetNameOrder)
Position(name) == CHOOSE i \in DOMAIN SheetNameOrder : SheetNameOrder[i] = name
SheetHeaderNames == {sX, sBlank}
Sheets == [name : SheetNames, columns : LabelSeqs(SheetHeaderNames, 0, MaxSheetCols)]
Workbooks ==
    {book \in SeqsUpTo(Sheets, MaxSheets) :
        /\ Len(book) >= 1
        /\ \A i, j \in DOMAIN book :
              i < j => Position(book[i].name) < Position(book[j].name)}

Maps == {EmptyMap, [t \in {sX} |-> sY]}

DedupIdle ==
    /\ names = <<>>
    /\ dedup_cols = None
    /\ dedup_sheets = None
    /\ dpc = {}

PipelineIdle(file_type, files) ==
    /\ pc = <<file_type, "start">>
    /\ xls \in files
    /\ translation_map \in Maps
    /\ total_columns = 0
    /\ overall = 0
    /\ translated_sheet_names = <<>>
    /\ sheet_idx = 1
    /\ df_columns = <<>>
    /\ translated_columns = <<>>
    /\ tracker = 0
    /\ df_out = None
    /\ translated_sheets = <<>>
    /\ emitted = None

----------------------------------------------------------------------------
(* translate_text called on its own *)

InitTranslate ==
    /\ TranslatorInit
    /\ DedupIdle
    /\ PipelineIdle("none", {<<>>})
    /\ translation_map = EmptyMap

TranslateTextSkipped ==
    \E text \in TextArgs, o \in Outcomes :
        LET r == translate_text(text, o, translation_cache) IN
        /\ r.ticks = 0
        /\ Count(tt_calls, text) < MaxCalls
        /\ ApplyTranslate(text, r)
        /\ UNCHANGED <<dedup_vars, pipeline_vars>>

TranslateTextCached ==
    \E text \in TextArgs, o \in Outcomes :
        LET r == translate_text(text, o, translation_cache) IN
        /\ r.ticks = 1 /\ ~r.called
        /\ Count(tt_calls, text) < MaxCalls
        /\ ApplyTranslate(text, r)
        /\ UNCHANGED <<dedup_vars, pipeline_vars>>

TranslateTextBackend ==
    \E text \in TextArgs, o \in Outcomes :
        LET r == translate_text(text, o, translation_cache) IN
        /\ r.called
        /\ Count(tt_calls, text) < MaxCalls
        /\ ApplyTranslate(text, r)
        /\ UNCHANGED <<dedup_vars, pipeline_vars>>

NextTranslate ==
    TranslateTextSkipped \/ TranslateTextCached \/ TranslateTextBackend

SpecTranslate == InitTranslate /\ [][NextTranslate]_vars

----------------------------------------------------------------------------
(* translate_columns: the column loop and what follows it *)

ColumnsLeft == Len(translated_columns) < Len(df_columns)
CurrentCol == df_columns[Len(translated_columns) + 1]

\* lines 73-92: entering translate_columns with the raw labels of df
EnterTranslateColumns(raw) ==
    /\ df_columns' = remove_empty_columns(raw)
    /\ translated_columns' = <<>>
    /\ tracker' = 0

\* lines 94-96
ColumnOverride ==
    /\ pc[2] = "columns"
    /\ ColumnsLeft
    /\ UseOverride(CurrentCol, translation_map)
    /\ translated_columns' = Append(translated_columns, translation_map[CurrentCol])
    /\ tracker' = Advance(tracker, 1)
    /\ UNCHANGED <<dedup_vars, translator_vars, pc, xls, translation_map,
                   total_columns, overall, translated_sheet_names, sheet_idx,
                   df_columns, df_out, translated_sheets, emitted>>

\* lines 97-98
ColumnTranslate ==
    /\ pc[2] = "columns"
    /\ ColumnsLeft
    /\ ~UseOverride(CurrentCol, translation_map)
    /\ \E o \in Outcomes :
         LET r == translate_text(CurrentCol, o, translation_cache) IN
         /\ ApplyTranslate(CurrentCol, r)
         /\ translated_columns' = Append(translated_columns, r.ret)
         /\ tracker' = Advance(tracker, r.ticks)
    /\ UNCHANGED <<dedup_vars, pc, xls, translation_map,
                   total_columns, overall, translated_sheet_names, sheet_idx,
                   df_columns, df_out, translated_sheets, emitted>>

\* lines 102-108: the DataFrame translate_columns returns; data names the
\* sheet the cell values come from
ReturnedFrame == [columns |-> deduplicate_columns(translated_columns),
                  data |-> sheet_idx]

----------------------------------------------------------------------------
(* process_csv_file *)

InitCsv ==
    /\ TranslatorInit
    /\ DedupIdle
    /\ PipelineIdle("csv", CsvFiles)

\* lines 186-194 and 73-92
CsvOpen ==
    /\ pc = <<"csv", "start">>
    /\ total_columns' = Len(xls[1].columns)
    /\ overall' = 0
    /\ EnterTranslateColumns(xls[1].columns)
    /\ pc' = <<"csv", "columns">>
    /\ UNCHANGED <<dedup_vars, translator_vars, xls, translation_map,
                   translated_sheet_names, sheet_idx, df_out,
                   translated_sheets, emitted>>

\* lines 99-108 and 195-199; line 196 divides by total_columns
CsvFinish ==
    /\ pc = <<"csv", "columns">>
    /\ ~ColumnsLeft
    /\ df_out' = ReturnedFrame
    /\ overall' = Advance(overall, Len(df_columns))
    /\ pc' = IF total_columns = 0 THEN <<"csv", "raised">> ELSE <<"csv", "returned">>
    /\ UNCHANGED <<dedup_vars, translator_vars, xls, translation_map,
                   total_columns, translated_sheet_names, sheet_idx,
                   df_columns, translated_columns, tracker,
                   translated_sheets, emitted>>

NextCsv == CsvOpen \/ ColumnOverride \/ ColumnTranslate \/ CsvFinish

SpecCsv == InitCsv /\ [][NextCsv]_vars

----------------------------------------------------------------------------
(* process_excel_file followed by to_excel *)

Init ==
    /\ TranslatorInit
    /\ DedupIdle
    /\ PipelineIdle("excel", Workbooks)

\* lines 145-159
ExcelOpen ==
    /\ pc = <<"excel", "start">>
    /\ total_columns' = SumColumns(xls)
    /\ overall' = 0
    /\ translated_sheets' = <<>>
    /\ translated_sheet_names' = <<>>
    /\ sheet_idx' = 1
    /\ pc' = <<"excel", "sheet_names">>
    /\ UNCHANGED <<dedup_vars, translator_vars, xls, translation_map,
                   df_columns, translated_columns, tracker, df_out, emitted>>

\* lines 160-163
TranslateSheetName ==
    /\ pc = <<"excel", "sheet_names">>
    /\ sheet_idx <= Len(xls)
    /\ \E o \in Outcomes :
         LET sheet_name == xls[sheet_idx].name
             r == translate_text(sheet_name, o, translation_cache) IN
         /\ ApplyTranslate(sheet_name, r)
         /\ translated_sheet_names' = DictSet(translated_sheet_names, sheet_name, r.ret)
    /\ sheet_idx' = sheet_idx + 1
    /\ UNCHANGED <<dedup_vars, pc, xls, translation_map, total_columns, overall,
                   df_columns, translated_columns, tracker, df_out,
                   translated_sheets, emitted>>

\* lines 164-170
DedupSheetNames ==
    /\ pc = <<"excel", "sheet_names">>
    /\ sheet_idx > Len(xls)
    /\ translated_sheet_names' =
          ZipDict(SheetNamesOf(xls),
                  deduplicate_sheet_names(DictValues(translated_sheet_names)),
                  1, <<>>)
    /\ sheet_idx' = 1
    /\ pc' = <<"excel", "sheets">>
    /\ UNCHANGED <<dedup_vars, translator_vars, xls, translation_map,
                   total_columns, overall, df_columns, translated_columns,
                   tracker, df_out, translated_sheets, emitted>>

\* lines 172-175 and 73-92
ReadSheet ==
    /\ pc = <<"excel", "sheets">>
    /\ sheet_idx <= Len(xls)
    /\ EnterTranslateColumns(xls[sheet_idx].columns)
    /\ pc' = <<"excel", "columns">>
    /\ UNCHANGED <<dedup_vars, translator_vars, xls, translation_map,
                   total_columns, overall, translated_sheet_names, sheet_idx,
                   df_out, translated_sheets, emitted>>

\* lines 99-108 and 176-180; line 180 divides by total_columns
ExcelFinishSheet ==
    /\ pc = <<"excel", "columns">>
    /\ ~ColumnsLeft
    /\ df_out' = ReturnedFrame
    /\ overall' = Advance(overall, Len(df_columns))
    /\ translated_sheets' =
          DictSet(translated_sheets,
                  DictGet(translated_sheet_names, xls[sheet_idx].name),
                  ReturnedFrame)
    /\ IF total_columns = 0
       THEN pc' = <<"excel", "raised">> /\ sheet_idx' = sheet_idx
       ELSE pc' = <<"excel", "sheets">> /\ sheet_idx' = sheet_idx + 1
    /\ UNCHANGED <<dedup_vars, translator_vars, xls, translation_map,
                   total_columns, translated_sheet_names,
                   df_columns, translated_columns, tracker, emitted>>

\* lines 181-183
ExcelReturn ==
    /\ pc = <<"excel", "sheets">>
    /\ sheet_idx > Len(xls)
    /\ pc' = <<"excel", "returned">>
    /\ UNCHANGED <<dedup_vars, translator_vars, xls, translation_map,
                   total_columns, overall, translated_sheet_names, sheet_idx,
                   df_columns, translated_columns, tracker, df_out,
                   translated_sheets, emitted>>

\* lines 201-206, called at line 247 on what process_excel_file returned
ToExcel ==
    /\ pc = <<"excel", "returned">>
    /\ emitted' = [i \in DOMAIN translated_sheets |->
                     Take(translated_sheets[i][1], SheetNameLimit)]
    /\ pc' = <<"excel", "exported">>
    /\ UNCHANGED <<dedup_vars, translator_vars, xls, translation_map,
                   total_columns, overall, translated_sheet_names, sheet_idx,
                   df_columns, translated_columns, tracker, df_out,
                   translated_sheets>>

Next ==
    \/ ExcelOpen
    \/ TranslateSheetName
    \/ DedupSheetNames
    \/ ReadSheet
    \/ ColumnOverride
    \/ ColumnTranslate
    \/ ExcelFinishSheet
    \/ ExcelReturn
    \/ ToExcel

Spec == Init /\ [][Next]_vars

----------------------------------------------------------------------------
(* The deduplicators as pure functions: every list of at most MaxLen names *)

DedupNames == {sX, sY, sX1, sX2}

InitDedup ==
    /\ names \in SeqsUpTo(DedupNames, MaxLen)
    /\ dedup_cols = None
    /\ dedup_sheets = None
    /\ dpc = {}
    /\ TranslatorInit
    /\ PipelineIdle("none", {<<>>})
    /\ translation_map = EmptyMap

CallDedupColumns ==
    /\ "columns" \notin dpc
    /\ dedup_cols' = deduplicate_columns(names)
    /\ dpc' = dpc \cup {"columns"}
    /\ UNCHANGED <<names, dedup_sheets, translator_vars, pipeline_vars>>

CallDedupSheetNames ==
    /\ "sheets" \notin dpc
    /\ dedup_sheets' = deduplicate_sheet_names(names)
    /\ dpc' = dpc \cup {"sheets"}
    /\ UNCHANGED <<names, dedup_cols, translator_vars, pipeline_vars>>

NextDedup == CallDedupColumns \/ CallDedupSheetNames

SpecDedup == InitDedup /\ [][NextDedup]_vars

----------------------------------------------------------------------------
(* Claims on the deduplicators *)

\* the number of positions 1..i of s holding the name at position i
Occurrence(s, i) == Cardinality({j \in 1..i : s[j] = s[i]})

\* C1: the list returned by deduplicate_columns never holds the same value
\* at two positions, whatever the input (names of the form X.k included).
C1_NoDuplicates ==
    "columns" \in dpc => Distinct(dedup_cols)

\* C2: both deduplicators return a list as long as the input in which
\* position i is the input name if it is its first occurrence and the name
\* followed by "." and k-1 if it is its k-th occurrence, k >= 2.
C2_SameSinglePass ==
    /\ "columns" \in dpc =>
         /\ Len(dedup_cols) = Len(names)
         /\ \A i \in DOMAIN names :
              LET k == Occurrence(names, i) IN
              dedup_cols[i] = IF k = 1 THEN names[i]
                              ELSE names[i] \o <<".">> \o IntToStr(k - 1)
    /\ "sheets" \in dpc =>
         /\ Len(dedup_sheets) = Len(names)
         /\ \A i \in DOMAIN names :
              LET k == Occurrence(names, i) IN
              dedup_sheets[i] = IF k = 1 THEN names[i]
                                ELSE names[i] \o <<".">> \o IntToStr(k - 1)
    /\ dpc = {"columns", "sheets"} => dedup_cols = dedup_sheets

C2_Witness ==
    /\ dpc = {"columns", "sheets"}
    /\ names = <<sX, sY, sX, sX>>
    /\ dedup_cols = <<sX, sY, sX1, sX2>>
    /\ dedup_sheets = dedup_cols

----------------------------------------------------------------------------
(* Claims on translate_text *)

\* empty, whitespace-only or missing, said without str.strip
ClaimBlank(t) == t = Missing \/ \A i \in DOMAIN t : t[i] \in Whitespace

\* C3 as stated: whatever the outcome of the first call, the backend is
\* invoked at most once for a text.
C3_AtMostOneBackendCall ==
    \A t \in DOMAIN backend_calls : backend_calls[t] <= 1

\* C3: once the backend has returned a translation for a text, the text is
\* in the cache and no later translate_text call on it invokes the backend;
\* so the backend returns at most once per text.  (A call that raised is not
\* cached: the backend is invoked again.)
C3_NoBackendCallOnceTranslated ==
    [][/\ backend_ok' \subseteq DOMAIN translation_cache'
       /\ \A t \in backend_ok :
            /\ Count(backend_calls', t) = Count(backend_calls, t)
            /\ translation_cache'[t] = translation_cache[t]
            /\ (tt_calls' /= tt_calls /\ tt_text' = t) => tt_ret' = translation_cache[t]
      ]_vars

C3_Witness ==
    /\ sX \in backend_ok
    /\ Count(tt_calls, sX) = 2
    /\ Count(backend_calls, sX) = 1
    /\ tt_text = sX
    /\ tt_ret = translation_cache[sX]

\* C9: translate_text on an empty, whitespace-only or missing text returns
\* the text itself, makes no backend call and leaves the cache as it was.
C9_SkippedTextNoEffect ==
    [][(tt_calls' /= tt_calls /\ ClaimBlank(tt_text')) =>
          /\ tt_ret' = tt_text'
          /\ UNCHANGED <<translation_cache, backend_calls, backend_ok, warned>>
      ]_vars

C9_Witness ==
    /\ tt_text = <<" ", "\t">>
    /\ tt_ret = <<" ", "\t">>
    /\ Count(tt_calls, Missing) > 0
    /\ Count(tt_calls, <<>>) > 0
    /\ DOMAIN translation_cache = {sX}
    /\ DOMAIN backend_calls = {sX}

----------------------------------------------------------------------------
(* Claims on translate_columns *)

\* empty, whitespace-only or an 'Unnamed' placeholder
ClaimPlaceholder(h) ==
    \/ \A i \in DOMAIN h : h[i] \in Whitespace
    \/ Len(h) >= 7 /\ SubSeq(h, 1, 7) = <<"U", "n", "n", "a", "m", "e", "d">>

NotPlaceholder(h) == ~ClaimPlaceholder(h)

Returned == pc[2] = "returned"

\* C4 as stated: a header whose translation raised is the header of its
\* column in the output, unchanged.
C4_FailedHeaderUnchanged ==
    Returned =>
        \A i \in DOMAIN df_columns :
            df_columns[i] \in warned => df_out.columns[i] = df_columns[i]

\* C4: a backend failure leaves the column loop running: the original text
\* is appended as that column's name and every header of the sheet gets a
\* name (later ones are still translated); in the output the failed header
\* is its original text, carrying the .k suffix of the deduplicator when an
\* earlier column already produced the same name.
C4_FailureDoesNotAbort ==
    [][/\ warned' /= warned =>
            /\ pc' = pc
            /\ translated_columns' = Append(translated_columns, CurrentCol)
       /\ pc'[2] = "returned" =>
            /\ Len(df_out'.columns) = Len(df_columns')
            /\ Len(translated_columns') = Len(df_columns')
            /\ \A i \in DOMAIN df_columns' :
                 LET col == df_columns'[i]
                     k == Occurrence(translated_columns', i) IN
                 /\ col \notin DOMAIN translation_map' /\ col \notin warned' =>
                       /\ col \in backend_ok'
                       /\ translated_columns'[i] = translation_cache'[col]
                 /\ col \in warned' =>
                       /\ translated_columns'[i] = col
                       /\ df_out'.columns[i] =
                            IF k = 1 THEN col ELSE col \o <<".">> \o IntToStr(k - 1)
      ]_vars

C4_Witness ==
    /\ Returned
    /\ \E i, j \in DOMAIN df_columns :
         /\ i < j
         /\ df_columns[i] \in warned
         /\ df_out.columns[i] = df_columns[i]
         /\ df_columns[j] \in backend_ok
         /\ df_out.columns[j] = translation_cache[df_columns[j]]

\* C5 as stated: no placeholder header reaches translate_text and no empty,
\* whitespace-only or placeholder header is among the output columns.
C5_NoPlaceholderInOutput ==
    /\ \A t \in DOMAIN tt_calls : ~ClaimPlaceholder(t)
    /\ Returned => \A i \in DOMAIN df_out.columns : ~ClaimPlaceholder(df_out.columns[i])

\* C5: empty, whitespace-only and 'Unnamed' headers are removed before
\* translation: none is passed to translate_text or the backend, and the
\* output columns are, in order, the remaining headers renamed.  An output
\* name is a placeholder only when an override or the backend produced it.
C5_PlaceholdersRemovedFirst ==
    /\ \A t \in DOMAIN tt_calls \cup DOMAIN backend_calls : ~ClaimPlaceholder(t)
    /\ pc[2] \in {"columns", "returned"} =>
          df_columns = SelectSeq(xls[sheet_idx].columns, NotPlaceholder)
    /\ Returned =>
          /\ Len(df_out.columns) = Len(df_columns)
          /\ \A i \in DOMAIN df_out.columns :
               ClaimPlaceholder(df_out.columns[i]) =>
                  /\ translated_columns[i] /= df_columns[i]
                  /\ translated_columns[i] \in
                        BackendResults \cup {translation_map[t] : t \in DOMAIN translation_map}

C5_Witness ==
    /\ Returned
    /\ \E i \in DOMAIN xls[1].columns : ClaimPlaceholder(xls[1].columns[i])
    /\ Len(df_out.columns) = 2
    /\ Len(xls[1].columns) = 3
    /\ Cardinality(DOMAIN tt_calls) = 2

\* C6: a header that is a key of the override map gets the override value;
\* that step makes no translate_text or backend call and leaves the cache
\* unchanged, also when the cache holds another translation of the header.
C6_OverrideBypassesCache ==
    [][(/\ pc[2] = "columns"
        /\ ColumnsLeft
        /\ CurrentCol \in DOMAIN translation_map
        /\ translated_columns' /= translated_columns) =>
          /\ translated_columns' =
                Append(translated_columns, translation_map[CurrentCol])
          /\ UNCHANGED <<translation_cache, backend_calls, backend_ok, tt_calls>>
      ]_vars

C6_Witness ==
    /\ pc[2] = "columns"
    /\ \E i \in DOMAIN translated_columns :
         LET col == df_columns[i] IN
         /\ col \in DOMAIN translation_map
         /\ translated_columns[i] = translation_map[col]
         /\ col \in DOMAIN translation_cache
         /\ translation_cache[col] /= translation_map[col]

----------------------------------------------------------------------------
(* Claims on process_excel_file and to_excel *)

\* C7 as stated: the returned mapping holds one processed sheet per input
\* sheet, in sheet order, under pairwise distinct post-dedup names.
C7_OneSheetPerInputSheet ==
    pc = <<"excel", "returned">> =>
        /\ Len(translated_sheets) = Len(xls)
        /\ Distinct(DictKeys(translated_sheets))
        /\ \A i \in DOMAIN translated_sheets :
             /\ translated_sheets[i][1] = DictGet(translated_sheet_names, xls[i].name)
             /\ translated_sheets[i][2].data = i

\* C8 as stated: the names to_excel emits are the first 31 characters of the
\* keys and are pairwise distinct whenever the keys are.
C8_TruncatedNamesDistinct ==
    (pc = <<"excel", "exported">> /\ Distinct(DictKeys(translated_sheets))) =>
        /\ \A i \in DOMAIN emitted :
             /\ Len(emitted[i]) <= 31
             /\ \A j \in DOMAIN emitted[i] : emitted[i][j] = translated_sheets[i][1][j]
        /\ Distinct(emitted)

\* the columns of a workbook that are not placeholders
RECURSIVE ClaimKept(_)
ClaimKept(book) ==
    IF book = <<>> THEN 0
    ELSE Cardinality({j \in DOMAIN Head(book).columns :
                         ~ClaimPlaceholder(Head(book).columns[j])})
         + ClaimKept(Tail(book))

\* C10: the overall counter never decreases, never exceeds the total column
\* count computed up front, and when process_excel_file returns it equals
\* the number of columns kept over all sheets.
C10_OverallProgress ==
    [][/\ overall' >= overall
       /\ overall' <= total_columns'
       /\ pc' = <<"excel", "returned">> => overall' = ClaimKept(xls')
      ]_vars

C10_Witness ==
    /\ pc = <<"excel", "returned">>
    /\ Len(xls) = 3
    /\ overall = 2
    /\ total_columns = 3

====
